---- MODULE Spec2Model ----
(***************************************************************************)
(* A model of download_anime1.py (class AnimeDownloader).                  *)
(*                                                                         *)
(* Strings are sequences of one-character strings; the CJK characters of   *)
(* titles and season markers are written with ASCII stand-ins.  File       *)
(* system semantics are those of POSIX: rename replaces an existing        *)
(* target, an open file stays writable after its name is unlinked or       *)
(* renamed.                                                                *)
(***************************************************************************)
EXTENDS Integers, Sequences, FiniteSets, TLC

VARIABLES
    fx,                  \* the call record of the pure-function specifications
    use_multithreading,  \* self.use_multithreading
    runpc,               \* position of run() / __main__
    exit_code,           \* process exit status
    failed_list,         \* self.failed_list
    pc,                  \* per url_list entry: position inside download_episode
    loc,                 \* per url_list entry: locals of download_episode
    net,                 \* per url_list entry: the network calls made so far
    files,               \* destination tree: path -> inode
    ino,                 \* inode -> content
    ts_folder            \* the scratch directory ".ts"

vars == <<fx, use_multithreading, runpc, exit_code, failed_list, pc, loc, net,
          files, ino, ts_folder>>

runVars == <<use_multithreading, runpc, exit_code, failed_list, pc, loc, net,
             files, ino, ts_folder>>

\* the run is not started: the state of the specifications of pure functions
RunIdle ==
    /\ use_multithreading = FALSE
    /\ runpc = "idle"
    /\ exit_code = 0
    /\ failed_list = <<>>
    /\ pc = <<>>
    /\ loc = <<>>
    /\ net = <<>>
    /\ files = <<>>
    /\ ino = <<>>
    /\ ts_folder = <<>>

-----------------------------------------------------------------------------
(* Bounds of the model *)

MaxNameLen == 4      \* longest name given to the season step
MaxSegs == 2         \* most segments a playlist declares
NumEpisodes == 2     \* length of url_list
MaxChunks == 2       \* most chunks a progressive stream delivers
MaxUrls == 2         \* most lines the URL file holds
MaxFetches == 3      \* most pages one listing is followed through

-----------------------------------------------------------------------------
(* Strings *)

RECURSIVE SeqsUpTo(_, _)
SeqsUpTo(S, n) ==
    IF n = 0 THEN {<<>>}
    ELSE LET shorter == SeqsUpTo(S, n - 1)
         IN  shorter \cup {Append(s, c) : s \in shorter, c \in S}

\* sub occurs in s at position i
OccursAt(s, sub, i) ==
    /\ i + Len(sub) - 1 <= Len(s)
    /\ \A k \in 1..Len(sub) : s[i + k - 1] = sub[k]

\* Python's  sub in s
Contains(s, sub) == \E i \in 1..(Len(s) + 1) : OccursAt(s, sub, i)

\* Python's  s.replace(sub, rep): every non-overlapping occurrence, left to right
RECURSIVE ReplaceFrom(_, _, _, _)
ReplaceFrom(s, sub, rep, i) ==
    IF i > Len(s) THEN <<>>
    ELSE IF OccursAt(s, sub, i)
         THEN rep \o ReplaceFrom(s, sub, rep, i + Len(sub))
         ELSE <<s[i]>> \o ReplaceFrom(s, sub, rep, i + 1)

\* the empty pattern matches before every character and at the end
RECURSIVE Intersperse(_, _)
Intersperse(s, rep) ==
    IF s = <<>> THEN rep ELSE rep \o <<Head(s)>> \o Intersperse(Tail(s), rep)

Replace(s, sub, rep) ==
    IF sub = <<>> THEN Intersperse(s, rep) ELSE ReplaceFrom(s, sub, rep, 1)

\* Python's  s.strip()
RECURSIVE LStrip(_)
LStrip(s) == IF s # <<>> /\ Head(s) = " " THEN LStrip(Tail(s)) ELSE s

RECURSIVE RStrip(_)
RStrip(s) ==
    IF s # <<>> /\ s[Len(s)] = " " THEN RStrip(SubSeq(s, 1, Len(s) - 1)) ELSE s

Strip(s) == RStrip(LStrip(s))

-----------------------------------------------------------------------------
(* Naming: get_and_replace_season_number *)

\* A season table is the ordered dict self.seasons: a sequence of
\* <<season_chinese, season_code>> pairs with distinct keys.
NoSeason(name) == [found |-> FALSE, code |-> <<>>, name |-> name]

\* the plausible slip: the fall-through returns the loop's last season code
RECURSIVE SeasonScanLeaky(_, _, _)
SeasonScanLeaky(seasons, anime_name, i) ==
    IF i > Len(seasons)
    THEN IF seasons = <<>> THEN NoSeason(anime_name)
         ELSE [found |-> TRUE, code |-> seasons[Len(seasons)][2], name |-> anime_name]
    ELSE IF Contains(anime_name, seasons[i][1])
         THEN [found |-> TRUE, code |-> seasons[i][2],
               name |-> Strip(Replace(anime_name, seasons[i][1], <<>>))]
         ELSE SeasonScanLeaky(seasons, anime_name, i + 1)

RECURSIVE SeasonScan(_, _, _)
SeasonScan(seasons, anime_name, i) ==
    IF i > Len(seasons) THEN NoSeason(anime_name)
    ELSE IF Contains(anime_name, seasons[i][1])
         THEN [found |-> TRUE, code |-> seasons[i][2],
               name |-> Strip(Replace(anime_name, seasons[i][1], <<>>))]
         ELSE SeasonScan(seasons, anime_name, i + 1)

get_and_replace_season_number(seasons, anime_name) ==
    SeasonScan(seasons, anime_name, 1)

\* True when some marker of the table occurs in the name
HasMarker(seasons, name) ==
    \E i \in 1..Len(seasons) : Contains(name, seasons[i][1])

-----------------------------------------------------------------------------
(* Naming: sanitize_video_name, parse_video_name, format_video_path *)

IllegalChars == {"\\", "/", ":", "*", "?", "\"", "<", ">", "|"}
Digits == <<"0", "1", "2", "3", "4", "5", "6", "7", "8", "9">>
DigitSet == {Digits[k] : k \in 1..10}

RECURSIVE Filter(_, _)
Filter(s, drop) ==
    IF s = <<>> THEN <<>>
    ELSE IF Head(s) \in drop THEN Filter(Tail(s), drop)
         ELSE <<Head(s)>> \o Filter(Tail(s), drop)

sanitize_video_name(video_name) == Filter(video_name, IllegalChars)

Positions(s, c) == {k \in 1..Len(s) : s[k] = c}
MaxOf(S) == CHOOSE m \in S : \A k \in S : k <= m

\* re.search(r"(.*)\[(.*)\]"): the first group runs to the last "[" that
\* still has a "]" after it, the second from there to the last "]".
parse_video_name(video_name) ==
    LET closes == Positions(video_name, "]")
        opens == {k \in Positions(video_name, "[") : \E j \in closes : j > k}
    IN  IF opens = {}
        THEN [ok |-> FALSE, name |-> <<>>, episode |-> <<>>]
        ELSE LET i == MaxOf(opens)
                 j == MaxOf(closes)
             IN  [ok |-> TRUE,
                  name |-> Strip(SubSeq(video_name, 1, i - 1)),
                  episode |-> Strip(SubSeq(video_name, i + 1, j - 1))]

\* str.isdigit() on the characters of the model
IsDigit(s) == s # <<>> /\ \A k \in 1..Len(s) : s[k] \in DigitSet

DigitVal(c) == (CHOOSE k \in 1..10 : Digits[k] = c) - 1

RECURSIVE ToInt(_)
ToInt(s) == IF s = <<>> THEN 0 ELSE 10 * ToInt(SubSeq(s, 1, Len(s) - 1)) + DigitVal(s[Len(s)])

RECURSIVE ToStr(_)
ToStr(n) == IF n < 10 THEN <<Digits[n + 1]>> ELSE ToStr(n \div 10) \o <<Digits[(n % 10) + 1]>>

\* the slip of formatting the episode number without the width
Pad2Unpadded(n) == ToStr(n)

\* f"{n:02d}"
Pad2(n) == IF n < 10 THEN <<"0">> \o ToStr(n) ELSE ToStr(n)

\* pathlib's  path / part : an empty part or "." adds nothing
Join(path, part) == IF part = <<>> \/ part = <<".">> THEN path ELSE Append(path, part)

Root == <<<<"r", "o", "o", "t">>>>
SeasonDir(n) == <<"S", "e", "a", "s", "o", "n", " ">> \o ToStr(n)
DotMp4 == <<".", "m", "p", "4">>
Dash == <<" ", "-", " ">>

\* the slip of a "Season 1" folder in the last branch as well
format_video_path_season1(anime_name, season, episode_num) ==
    LET has_season == season.found /\ season.code # <<>>
        episode_str == IF IsDigit(episode_num) THEN Pad2(ToInt(episode_num)) ELSE episode_num
        base == Join(Root, anime_name)
    IN  IF has_season /\ ~IsDigit(season.code)
        THEN [ok |-> FALSE, path |-> <<>>]
        ELSE [ok |-> TRUE, path |->
              IF has_season /\ IsDigit(episode_num)
              THEN Append(Join(base, SeasonDir(ToInt(season.code))),
                          anime_name \o Dash \o <<"S">> \o season.code \o <<"E">> \o episode_str \o DotMp4)
              ELSE IF has_season
              THEN Append(Join(base, SeasonDir(ToInt(season.code))),
                          anime_name \o Dash \o <<"S">> \o season.code \o Dash \o episode_str \o DotMp4)
              ELSE Append(Join(base, SeasonDir(1)), anime_name \o Dash \o episode_str \o DotMp4)]

\* season is the record returned by get_and_replace_season_number; a season
\* code that is "" is as absent as None (if season_num)
format_video_path(anime_name, season, episode_num) ==
    LET has_season == season.found /\ season.code # <<>>
        episode_str == IF IsDigit(episode_num) THEN Pad2(ToInt(episode_num)) ELSE episode_num
        base == Join(Root, anime_name)
    IN  IF has_season /\ ~IsDigit(season.code)
        THEN [ok |-> FALSE, path |-> <<>>]
        ELSE [ok |-> TRUE, path |->
              IF has_season /\ IsDigit(episode_num)
              THEN Append(Join(base, SeasonDir(ToInt(season.code))),
                          anime_name \o Dash \o <<"S">> \o season.code \o <<"E">> \o episode_str \o DotMp4)
              ELSE IF has_season
              THEN Append(Join(base, SeasonDir(ToInt(season.code))),
                          anime_name \o Dash \o <<"S">> \o season.code \o Dash \o episode_str \o DotMp4)
              ELSE IF IsDigit(episode_num)
              THEN Append(Join(base, SeasonDir(1)), anime_name \o Dash \o episode_str \o DotMp4)
              ELSE Append(base, anime_name \o Dash \o episode_str \o DotMp4)]

\* process_video_name up to the existence check: the destination of a title
\* under a season table, or the error raised on the way
video_path_of(seasons, video_name) ==
    LET parsed == parse_video_name(sanitize_video_name(video_name))
        season == get_and_replace_season_number(seasons, parsed.name)
        formatted == format_video_path(season.name, season, parsed.episode)
    IN  IF ~parsed.ok THEN [ok |-> FALSE, err |-> "ValueError: title format", path |-> <<>>]
        ELSE IF ~formatted.ok THEN [ok |-> FALSE, err |-> "ValueError: int()", path |-> <<>>]
        ELSE [ok |-> TRUE, err |-> "", path |-> formatted.path]

\* Path.with_name("." + name)
temp_video_path(video_path) ==
    [video_path EXCEPT ![Len(video_path)] = <<".">> \o video_path[Len(video_path)]]

-----------------------------------------------------------------------------
(* parse_m3u8_from_url.  A URL is a sequence of tokens; replace() works on  *)
(* it as on any string.  The two responses are those of the first and of    *)
(* the second GET the function makes; a response body is the list of        *)
(* segment URIs m3u8.loads finds in it.                                      *)

PlaylistFile == <<"playlist", ".", "m3u8">>

QualitiesSwapped == <<"720p", "1080p">>

Qualities == <<"1080p", "720p">>

\* a dict built from key/value pairs: a repeated key keeps its first place
\* and takes the last value
RECURSIVE DictOf(_)
DictOf(pairs) ==
    IF pairs = <<>> THEN <<>>
    ELSE LET init == DictOf(SubSeq(pairs, 1, Len(pairs) - 1))
             last == pairs[Len(pairs)]
         IN  IF \E k \in 1..Len(init) : init[k][1] = last[1]
             THEN [k \in 1..Len(init) |-> IF init[k][1] = last[1] THEN last ELSE init[k]]
             ELSE Append(init, last)

\* the slip of writing the keys in another order than the dict's
KeysBackwards(dict) == [k \in 1..Len(dict) |-> dict[Len(dict) + 1 - k][1]]

Keys(dict) == [k \in 1..Len(dict) |-> dict[k][1]]

TierUrl(url, quality) == Replace(url, <<"playlist">>, <<quality>>)

RECURSIVE TryQualities(_, _, _, _)
TryQualities(url, resp, q, fetched) ==
    LET new_url == TierUrl(url, Qualities[q])
        response == resp[q]
    IN  IF response.status = 200
        THEN [ok |-> TRUE, err |-> "",
              fetched |-> Append(fetched, new_url),
              ts_links |-> DictOf([k \in 1..Len(response.body) |->
                              <<response.body[k],
                                Replace(new_url, PlaylistFile, <<response.body[k]>>)>>])]
        ELSE IF q = Len(Qualities)
        THEN [ok |-> FALSE, err |-> "ConnectionError",
              fetched |-> Append(fetched, new_url), ts_links |-> <<>>]
        ELSE TryQualities(url, resp, q + 1, Append(fetched, new_url))

parse_m3u8_from_url(url, resp) == TryQualities(url, resp, 1, <<>>)

SegNames == {"0.ts", "1.ts"}
Bodies == SeqsUpTo(SegNames, MaxSegs)
Responses ==
    [status : {200}, body : Bodies] \cup [status : {404, 500}, body : {<<"e.ts">>}]

PlaylistUrls ==
    { <<"https:", "//h/", "playlist", ".", "m3u8">>,
      <<"https:", "//h/", "index", ".", "m3u8">> }

M3u8Init ==
    /\ fx \in [op : {"m3u8"}, stage : {"input"}, url : PlaylistUrls,
               resp : [1..2 -> Responses],
               out : {[ok |-> FALSE, err |-> "", fetched |-> <<>>, ts_links |-> <<>>]}]
    /\ RunIdle

M3u8Parse ==
    /\ fx.op = "m3u8" /\ fx.stage = "input"
    /\ fx' = [fx EXCEPT !.stage = "parsed",
                        !.out = parse_m3u8_from_url(fx.url, fx.resp)]
    /\ UNCHANGED runVars

SpecM3u8 == M3u8Init /\ [][M3u8Parse]_vars

\* the distinct elements of a sequence, in the order of their first occurrence
RECURSIVE Distinct(_)
Distinct(s) ==
    IF s = <<>> THEN <<>>
    ELSE LET init == Distinct(SubSeq(s, 1, Len(s) - 1))
         IN  IF \E k \in 1..Len(init) : init[k] = s[Len(s)] THEN init
             ELSE Append(init, s[Len(s)])

\* the manifest is the one of response r, fetched at the URL of tier quality
BuiltFrom(out, r, t) ==
    /\ Keys(out.ts_links) = Distinct(r.body)
    /\ \A k \in 1..Len(out.ts_links) :
          /\ out.ts_links[k][2] = Replace(t, PlaylistFile, <<out.ts_links[k][1]>>)
          /\ out.ts_links[k][1] # "e.ts"

\* C9: the tiers are tried in the order 1080p, 720p; the manifest comes from
\* the first response with status 200 and from it only (one GET when 1080p
\* succeeds; with 1080p failing and 720p succeeding every segment URL comes
\* from the 720p URL); with both failing the call raises ConnectionError and
\* yields no manifest.
C9_FirstSuccessfulTier ==
    (fx.op = "m3u8" /\ fx.stage = "parsed") =>
        LET t1 == TierUrl(fx.url, "1080p")
            t2 == TierUrl(fx.url, "720p")
        IN  /\ fx.resp[1].status = 200 =>
                /\ fx.out.ok
                /\ fx.out.fetched = <<t1>>
                /\ BuiltFrom(fx.out, fx.resp[1], t1)
            /\ (fx.resp[1].status # 200 /\ fx.resp[2].status = 200) =>
                /\ fx.out.ok
                /\ fx.out.fetched = <<t1, t2>>
                /\ BuiltFrom(fx.out, fx.resp[2], t2)
            /\ (fx.resp[1].status # 200 /\ fx.resp[2].status # 200) =>
                /\ ~fx.out.ok
                /\ fx.out.err = "ConnectionError"
                /\ fx.out.fetched = <<t1, t2>>
                /\ fx.out.ts_links = <<>>

\* scenario C: 1080p answers 404, 720p answers 200 with two segments
C9_Witness ==
    /\ fx.op = "m3u8" /\ fx.stage = "parsed"
    /\ fx.url = <<"https:", "//h/", "playlist", ".", "m3u8">>
    /\ fx.resp[1].status = 404
    /\ fx.resp[2] = [status |-> 200, body |-> <<"0.ts", "1.ts">>]
    /\ fx.out.ok
    /\ Keys(fx.out.ts_links) = <<"0.ts", "1.ts">>
    /\ fx.out.fetched[2] = <<"https:", "//h/", "720p", ".", "m3u8">>

-----------------------------------------------------------------------------
(* The specification of the season step: a name and a table are drawn, the  *)
(* step is applied once, then once more to the name it returned.            *)

NameChars == {"a", "b", " "}
SeasonNames == SeqsUpTo(NameChars, MaxNameLen)

MarkerCodes == { <<<<"a">>, <<"1">>>>, <<<<"a", "b">>, <<"2">>>>, <<<<"b", "b">>, <<"3">>>> }
SeasonTables ==
    {<<>>} \cup {<<p>> : p \in MarkerCodes}
           \cup UNION {{<<p, q>> : q \in MarkerCodes \ {p}} : p \in MarkerCodes}

SeasonInit ==
    /\ fx \in [op : {"season"}, stage : {"input"}, seasons : SeasonTables,
               name : SeasonNames, r1 : {NoSeason(<<>>)}, r2 : {NoSeason(<<>>)}]
    /\ RunIdle

SeasonFirst ==
    /\ fx.op = "season" /\ fx.stage = "input"
    /\ fx' = [fx EXCEPT !.stage = "once",
                        !.r1 = get_and_replace_season_number(fx.seasons, fx.name)]
    /\ UNCHANGED runVars

SeasonSecond ==
    /\ fx.op = "season" /\ fx.stage = "once"
    /\ fx' = [fx EXCEPT !.stage = "twice",
                        !.r2 = get_and_replace_season_number(fx.seasons, fx.r1.name)]
    /\ UNCHANGED runVars

SeasonNext == SeasonFirst \/ SeasonSecond

SpecSeason == SeasonInit /\ [][SeasonNext]_vars

\* C10 (as stated): a second application to the name returned by the first
\* returns no season code and leaves the name unchanged, for every name and
\* every table.
C10_Original ==
    (fx.op = "season" /\ fx.stage = "twice") => fx.r2 = NoSeason(fx.r1.name)

\* C10 (amended): the second application returns no season code and leaves
\* the name unchanged exactly when the name returned by the first
\* application holds no marker of the table; otherwise it returns the code
\* of the first marker of the table that is still in the name.
C10_Amended ==
    (fx.op = "season" /\ fx.stage = "twice") =>
        /\ ~HasMarker(fx.seasons, fx.r1.name) => fx.r2 = NoSeason(fx.r1.name)
        /\ HasMarker(fx.seasons, fx.r1.name) => fx.r2.found

\* a name with one marker: the first application strips it, the second
\* finds nothing
C10_Witness ==
    /\ fx.op = "season" /\ fx.stage = "twice"
    /\ fx.r1.found
    /\ fx.r1.name # fx.name
    /\ fx.r2 = NoSeason(fx.r1.name)

-----------------------------------------------------------------------------
(* The specification of the naming step: format_video_path applied to a     *)
(* drawn (name, season code, episode part), and process_video_name up to    *)
(* the existence check applied to a drawn title under a drawn table.        *)

FormatNames == {<<>>, <<"A">>, <<"A", "B">>, <<"A", " ", "B">>}

\* season codes a table can hold: "", "4", "04", "12", "x"
SeasonCodes == {<<>>, <<"4">>, <<"0", "4">>, <<"1", "2">>, <<"x">>}

\* what get_and_replace_season_number hands on: None, or a code of the table
FormatSeasons(name) ==
    {NoSeason(name)} \cup {[found |-> TRUE, code |-> c, name |-> name] : c \in SeasonCodes}

\* episode parts: "1", "12", "007", "123", "OP", "1a", ""
FormatEpisodes ==
    { <<"1">>, <<"1", "2">>, <<"0", "0", "7">>, <<"1", "2", "3">>, <<"O", "P">>,
      <<"1", "a">>, <<>> }

\* titles: "A s[12]" (a name, a season marker, a number), "B[OP]", "A[1]",
\* "A?[01]", "A s[OP]", "[1]", "A"
NamingTitles ==
    { <<"A", " ", "s", "[", "1", "2", "]">>,
      <<"B", "[", "O", "P", "]">>,
      <<"A", "[", "1", "]">>,
      <<"A", "?", "[", "0", "1", "]">>,
      <<"A", " ", "s", "[", "O", "P", "]">>,
      <<"[", "1", "]">>,
      <<"A">> }

NamingTables == {<<>>} \cup {<< <<<<"s">>, c>> >> : c \in {<<"4">>, <<>>, <<"x">>}}

NoPath == [ok |-> FALSE, err |-> "", path |-> <<>>]

NamingInit ==
    /\ \/ \E n \in FormatNames :
             fx \in [op : {"format"}, stage : {"input"}, name : {n},
                     season : FormatSeasons(n), episode : FormatEpisodes,
                     out : {[ok |-> FALSE, path |-> <<>>]}]
       \/ fx \in [op : {"title"}, stage : {"input"}, seasons : NamingTables,
                   title : NamingTitles, out : {NoPath}]
    /\ RunIdle

FormatApply ==
    /\ fx.op = "format" /\ fx.stage = "input"
    /\ fx' = [fx EXCEPT !.stage = "formatted",
                        !.out = format_video_path(fx.name, fx.season, fx.episode)]
    /\ UNCHANGED runVars

TitleResolve ==
    /\ fx.op = "title" /\ fx.stage = "input"
    /\ fx' = [fx EXCEPT !.stage = "resolved",
                        !.out = video_path_of(fx.seasons, fx.title)]
    /\ UNCHANGED runVars

NamingNext == FormatApply \/ TitleResolve

SpecNaming == NamingInit /\ [][NamingNext]_vars

\* "<a>/<b>": b is a component under a; an empty b is a itself
Under(a, b) == IF b = <<>> THEN a ELSE Append(a, b)

\* leading zeros dropped: "04" is 4, "007" is 7
RECURSIVE Canon(_)
Canon(d) == IF Len(d) > 1 /\ Head(d) = "0" THEN Canon(Tail(d)) ELSE d

AllDigits(s) == s # <<>> /\ \A k \in 1..Len(s) : s[k] \in DigitSet

\* the path of the shape the case (season, numeric) selects: <N> is the
\* season code as an integer, <NN> the episode as an integer of at least two
\* digits
Shape(name, season, numeric, code, episode) ==
    LET nn == IF Len(Canon(episode)) >= 2 THEN Canon(episode) ELSE <<"0">> \o Canon(episode)
        folder == IF season THEN <<"S", "e", "a", "s", "o", "n", " ">> \o Canon(code)
                  ELSE IF numeric THEN <<"S", "e", "a", "s", "o", "n", " ", "1">>
                  ELSE <<>>
        tag == IF season /\ numeric THEN <<"S">> \o code \o <<"E">> \o nn
               ELSE IF season THEN <<"S">> \o code \o <<" ", "-", " ">> \o episode
               ELSE IF numeric THEN nn
               ELSE episode
    IN  Append(Under(Under(Root, name), folder),
               name \o <<" ", "-", " ">> \o tag \o <<".", "m", "p", "4">>)

\* the title "A s[12]" under the table that maps marker "s" to "4" resolves
\* to  root/A/Season 4/A - S4E12.mp4
ScenarioA ==
    (/\ fx.title = <<"A", " ", "s", "[", "1", "2", "]">>
     /\ fx.seasons = << <<<<"s">>, <<"4">>>> >>)
    => /\ fx.out.ok
       /\ fx.out.path = << <<"r", "o", "o", "t">>, <<"A">>,
                           <<"S", "e", "a", "s", "o", "n", " ", "4">>,
                           <<"A", " ", "-", " ", "S", "4", "E", "1", "2", ".", "m", "p", "4">> >>

\* C11 (as stated): for every name, season code and episode part
\* format_video_path returns a path, of the shape selected by whether a
\* season code is given and whether the episode part is numeric.
C11_Original ==
    (fx.op = "format" /\ fx.stage = "formatted") =>
        /\ fx.out.ok
        /\ fx.out.path = Shape(fx.name, fx.season.found, AllDigits(fx.episode),
                               fx.season.code, fx.episode)

\* C11 (amended): a season code counts as given when it is a non-empty
\* string; with a code that is absent, empty or a string of decimal digits
\* format_video_path returns the path of the shape selected by (code given,
\* episode numeric), the folder "Season <N>" carrying the code as an integer
\* and the file name the code as written, a numeric episode written as an
\* integer of at least two digits; with a non-empty code that is no decimal
\* integer it raises ValueError and returns no path.
C11_Amended ==
    /\ (fx.op = "format" /\ fx.stage = "formatted") =>
        LET given == fx.season.found /\ fx.season.code # <<>>
        IN  IF given /\ ~AllDigits(fx.season.code)
            THEN ~fx.out.ok
            ELSE /\ fx.out.ok
                 /\ fx.out.path = Shape(fx.name, given, AllDigits(fx.episode),
                                        fx.season.code, fx.episode)
    /\ (fx.op = "title" /\ fx.stage = "resolved") => ScenarioA

\* name "A", season code "4", episode "12":  root/A/Season 4/A - S4E12.mp4
C11_Witness ==
    /\ fx.op = "format" /\ fx.stage = "formatted"
    /\ fx.name = <<"A">> /\ fx.season.found /\ fx.season.code = <<"4">>
    /\ fx.episode = <<"1", "2">>
    /\ fx.out.ok
    /\ fx.out.path = << <<"r", "o", "o", "t">>, <<"A">>,
                        <<"S", "e", "a", "s", "o", "n", " ", "4">>,
                        <<"A", " ", "-", " ", "S", "4", "E", "1", "2", ".", "m", "p", "4">> >>

\* the title "B[OP]": no marker of any table is in it
TitleOP == <<"B", "[", "O", "P", "]">>

\* C12 (as stated): a title with a non-numeric episode part and no season
\* marker resolves to a path under a "Season 1" folder.
C12_Original ==
    (fx.op = "title" /\ fx.stage = "resolved" /\ fx.title = TitleOP) =>
        /\ fx.out.ok
        /\ fx.out.path = << <<"r", "o", "o", "t">>, <<"B">>,
                            <<"S", "e", "a", "s", "o", "n", " ", "1">>,
                            <<"B", " ", "-", " ", "O", "P", ".", "m", "p", "4">> >>

\* C12 (amended): a title with a non-numeric episode part and no season
\* marker resolves to a path directly under the folder of the name, with no
\* season folder.
C12_Amended ==
    (fx.op = "title" /\ fx.stage = "resolved" /\ fx.title = TitleOP) =>
        /\ fx.out.ok
        /\ fx.out.path = << <<"r", "o", "o", "t">>, <<"B">>,
                            <<"B", " ", "-", " ", "O", "P", ".", "m", "p", "4">> >>

\* "B[OP]" resolved under the table that maps marker "s" to "4"
C12_Witness ==
    /\ fx.op = "title" /\ fx.stage = "resolved" /\ fx.title = TitleOP
    /\ fx.seasons = << <<<<"s">>, <<"4">>>> >>
    /\ fx.out.ok
    /\ Len(fx.out.path) = 3

-----------------------------------------------------------------------------
(* The first half of run(): the URLs read, set(), classify_urls with         *)
(* get_season_episodes, and the hand-over of url_list to download_episode.  *)
(* A URL is named by a short string: "catA", "catB" are category pages,     *)
(* "catA2" the page the previous-page link of "catA" can lead to, "e1",     *)
(* "e2", "e3" episode pages (anime1.me/<digits>), "bad" any other URL.      *)

EpisodeUrls == {"e1", "e2", "e3"}
ListingUrls == {"catA", "catB"}
Pages == {"catA", "catA2", "catB"}
InputUrls == {"catA", "catB", "e1", "bad"}

\* the regular expressions of classify_urls
Kind(url) ==
    IF url \in ListingUrls \cup {"catA2"} THEN "category"
    ELSE IF url \in EpisodeUrls THEN "episode"
    ELSE "other"

\* the entry-title headings of a page: a permalink, or "nolink" for a
\* heading without a bookmark link; prev is the href of the previous-page
\* link, "none" without one
Sites ==
    [ catA  : [entries : {<<>>, <<"e1", "e2">>, <<"nolink", "e1">>},
               prev : {"none", "catA2", "catA"}],
      catA2 : [entries : {<<>>, <<"e3">>, <<"e2">>},
               prev : {"none", "catA"}],
      catB  : [entries : {<<>>, <<"e2">>, <<"e1">>},
               prev : {"none"}] ]

\* the hrefs of the headings that carry a bookmark link, in page order
RECURSIVE Permalinks(_)
Permalinks(entries) ==
    IF entries = <<>> THEN <<>>
    ELSE IF Head(entries) = "nolink" THEN Permalinks(Tail(entries))
         ELSE <<Head(entries)>> \o Permalinks(Tail(entries))

\* list(set(anime_urls)): the distinct URLs, in an order set() decides
SetOrders(lines) ==
    {s \in SeqsUpTo({lines[k] : k \in 1..Len(lines)}, Len(lines)) :
        /\ {s[k] : k \in 1..Len(s)} = {lines[k] : k \in 1..Len(lines)}
        /\ \A j, k \in 1..Len(s) : s[j] = s[k] => j = k}

ExpandInit ==
    /\ fx \in [op : {"expand"}, stage : {"read"}, site : Sites,
               lines : SeqsUpTo(InputUrls, MaxUrls), anime_urls : {<<>>},
               i : {1}, url_list : {<<>>}, log : {<<>>},
               current_url : {"none"}, episodes : {<<>>}, visited : {<<>>},
               k : {1}, calls : {<<>>}, exit : {0}]
    /\ RunIdle

\* run(), lines 361-368: the URLs read and deduplicated
CollectUrls ==
    /\ fx.op = "expand" /\ fx.stage = "read"
    /\ \E s \in SetOrders(fx.lines) :
          fx' = [fx EXCEPT !.stage = "classify", !.anime_urls = s]
    /\ UNCHANGED runVars

\* one turn of the loop of classify_urls for a URL that is no category page
ClassifySingle ==
    /\ fx.op = "expand" /\ fx.stage = "classify"
    /\ fx.i <= Len(fx.anime_urls)
    /\ LET url == fx.anime_urls[fx.i]
       IN  /\ Kind(url) # "category"
           /\ fx' = IF Kind(url) = "episode"
                    THEN [fx EXCEPT !.i = @ + 1,
                                    !.url_list = Append(@, url),
                                    !.log = Append(@, <<"single", url>>)]
                    ELSE [fx EXCEPT !.i = @ + 1,
                                    !.log = Append(@, <<"unsupported", url>>)]
    /\ UNCHANGED runVars

\* a category page: get_season_episodes is called
ListingCall ==
    /\ fx.op = "expand" /\ fx.stage = "classify"
    /\ fx.i <= Len(fx.anime_urls)
    /\ Kind(fx.anime_urls[fx.i]) = "category"
    /\ fx' = [fx EXCEPT !.stage = "listing",
                        !.current_url = fx.anime_urls[fx.i],
                        !.episodes = <<>>,
                        !.visited = <<>>]
    /\ UNCHANGED runVars

\* the slip of putting the entries of an older page in front
ListingFetchPrepend ==
    /\ fx.op = "expand" /\ fx.stage = "listing"
    /\ fx.current_url # "none"
    /\ Len(fx.visited) < MaxFetches
    /\ \/ fx' = [fx EXCEPT !.stage = "aborted", !.exit = 1]
       \/ LET page == fx.site[fx.current_url]
          IN  fx' = [fx EXCEPT !.episodes = Permalinks(page.entries) \o @,
                               !.visited = Append(@, fx.current_url),
                               !.current_url = page.prev]
    /\ UNCHANGED runVars

\* one turn of the loop of get_season_episodes: the page fetched, its
\* permalinks appended, the previous-page link taken; or the POST raising,
\* which nothing catches before __main__
ListingFetch ==
    /\ fx.op = "expand" /\ fx.stage = "listing"
    /\ fx.current_url # "none"
    /\ Len(fx.visited) < MaxFetches
    /\ \/ fx' = [fx EXCEPT !.stage = "aborted", !.exit = 1]
       \/ LET page == fx.site[fx.current_url]
          IN  fx' = [fx EXCEPT !.episodes = @ \o Permalinks(page.entries),
                               !.visited = Append(@, fx.current_url),
                               !.current_url = page.prev]
    /\ UNCHANGED runVars

\* get_season_episodes returns; classify_urls extends url_list and prints
ListingReturn ==
    /\ fx.op = "expand" /\ fx.stage = "listing"
    /\ fx.current_url = "none"
    /\ fx' = [fx EXCEPT !.stage = "classify",
                        !.i = @ + 1,
                        !.url_list = @ \o fx.episodes,
                        !.log = Append(@, IF fx.episodes # <<>>
                                          THEN <<"added", fx.anime_urls[fx.i]>>
                                          ELSE <<"none", fx.anime_urls[fx.i]>>),
                        !.episodes = <<>>]
    /\ UNCHANGED runVars

\* classify_urls returns url_list
ClassifyReturn ==
    /\ fx.op = "expand" /\ fx.stage = "classify"
    /\ fx.i > Len(fx.anime_urls)
    /\ fx' = [fx EXCEPT !.stage = "download"]
    /\ UNCHANGED runVars

\* the loop, or executor.map: the next entry of url_list passed to
\* download_episode
DownloadCall ==
    /\ fx.op = "expand" /\ fx.stage = "download"
    /\ fx.k <= Len(fx.url_list)
    /\ fx' = [fx EXCEPT !.k = @ + 1, !.calls = Append(@, fx.url_list[fx.k])]
    /\ UNCHANGED runVars

DownloadsDone ==
    /\ fx.op = "expand" /\ fx.stage = "download"
    /\ fx.k > Len(fx.url_list)
    /\ fx' = [fx EXCEPT !.stage = "report"]
    /\ UNCHANGED runVars

ExpandNext ==
    \/ CollectUrls
    \/ ClassifySingle
    \/ ListingCall
    \/ ListingFetch
    \/ ListingReturn
    \/ ClassifyReturn
    \/ DownloadCall
    \/ DownloadsDone

SpecExpand == ExpandInit /\ [][ExpandNext]_vars

Elems(s) == {s[k] : k \in 1..Len(s)}
Count(s, x) == Cardinality({k \in 1..Len(s) : s[k] = x})

\* C17: when the downloads are through, every episode URL that was supplied
\* or reached through a listing has been passed to download_episode exactly
\* once.
C17_EachEpisodeOnce ==
    (fx.op = "expand" /\ fx.stage = "report") =>
        \A u \in EpisodeUrls :
            (u \in Elems(fx.lines) \cup Elems(fx.url_list)) => Count(fx.calls, u) = 1

\* the permalinks of the pages v of a site, page after page
RECURSIVE Collected(_, _)
Collected(site, v) ==
    IF v = <<>> THEN <<>>
    ELSE Collected(site, SubSeq(v, 1, Len(v) - 1))
            \o SelectSeq(site[v[Len(v)]].entries, LAMBDA x : x # "nolink")

\* C18: get_season_episodes fetches the listing URL, then the page each
\* previous-page link leads to, one at a time; it fetches no page after one
\* without such a link and returns only then; what it returns is every
\* permalink of every page visited, pages in visiting order and entries in
\* page order; the caller appends it to url_list and goes on to the next
\* URL, printing "none found" for an empty result.
C18_ListingFollowed ==
    /\ []((fx.op = "expand" /\ fx.stage = "listing") =>
            LET v == fx.visited
            IN  /\ v # <<>> => v[1] = fx.anime_urls[fx.i]
                /\ \A j \in 1..(Len(v) - 1) : v[j + 1] = fx.site[v[j]].prev
                /\ fx.current_url = IF v = <<>> THEN fx.anime_urls[fx.i]
                                    ELSE fx.site[v[Len(v)]].prev
                /\ fx.episodes = Collected(fx.site, v))
    /\ [][(fx.op = "expand" /\ fx.stage = "listing" /\ fx'.stage = "listing"
                /\ fx'.visited # fx.visited)
            => /\ fx'.visited = Append(fx.visited, fx.current_url)
               /\ fx.visited # <<>> => fx.site[fx.visited[Len(fx.visited)]].prev # "none"]_vars
    /\ [][(fx.op = "expand" /\ fx.stage = "listing" /\ fx'.stage = "classify")
            => /\ fx.visited # <<>>
               /\ fx.site[fx.visited[Len(fx.visited)]].prev = "none"
               /\ fx'.url_list = fx.url_list \o Collected(fx.site, fx.visited)
               /\ fx'.i = fx.i + 1
               /\ fx'.exit = 0
               /\ Collected(fx.site, fx.visited) = <<>> =>
                      fx'.log = Append(fx.log, <<"none", fx.anime_urls[fx.i]>>)]_vars

\* an empty listing was reported, the next one was followed through two
\* pages, and the run went on to its report
C18_Witness ==
    /\ fx.op = "expand" /\ fx.stage = "report"
    /\ fx.anime_urls = <<"catB", "catA">>
    /\ fx.visited = <<"catA", "catA2">>
    /\ fx.log = << <<"none", "catB">>, <<"added", "catA">> >>
    /\ fx.url_list = <<"e1", "e2", "e3">>
    /\ fx.exit = 0

-----------------------------------------------------------------------------
(* The run: download_episode for every entry of url_list, one after the     *)
(* other or on the pool of four workers.                                     *)

MinSize == 1024 * 1024
PoolWidth == 4

Episodes == 1..NumEpisodes

\* self.seasons of the run
MainSeasons == << <<<<"s">>, <<"2">>>> >>

\* titles the episode pages carry:  "A[1]",  "A s[1]",  "A?[01]",  "A"
Titles ==
    { <<"A", "[", "1", "]">>,
      <<"A", " ", "s", "[", "1", "]">>,
      <<"A", "?", "[", "0", "1", "]">>,
      <<"A">> }

\* the src values the API answers with (protocol-relative)
MediaSrcs ==
    { <<"//h/", "v", ".", "mp4">>,
      <<"//h/", "v", ".", "MP4">>,
      <<"//h/", "playlist", ".", "m3u8">>,
      <<"//h/", "v", ".", "flv">> }

\* the playlist responses of the run: the segments of every playlist are
\* numbered from "0.ts"; 1080p answers, or fails and 720p answers or fails
MainBodies == {b \in Bodies : b = <<>> \/ b[1] = "0.ts"}
NotFound == [status |-> 404, body |-> <<"e.ts">>]
MainResponses ==
    {<<[status |-> 200, body |-> b], NotFound>> : b \in MainBodies}
        \cup {<<NotFound, [status |-> 200, body |-> b]>> : b \in MainBodies}
        \cup {<<NotFound, NotFound>>}

Sizes == {MinSize - 1, MinSize}

\* destinations already on disk when the run starts
PreExisting ==
    {{}, {video_path_of(MainSeasons, <<"A", "[", "1", "]">>).path}}

Lower(tok) == IF tok = "MP4" THEN "mp4" ELSE IF tok = "M3U8" THEN "m3u8" ELSE tok

\* video_url.split('.')[-1].lower()
video_suffix(video_url) ==
    LET dots == Positions(video_url, ".")
        last == IF dots = {} THEN video_url
                ELSE SubSeq(video_url, MaxOf(dots) + 1, Len(video_url))
    IN  [k \in 1..Len(last) |-> Lower(last[k])]

NoPlaylist == [owner |-> 0, lines |-> <<>>]
NoFolder == [exists |-> FALSE, playlist |-> NoPlaylist, segs |-> <<>>, temp |-> -1]

LocInit ==
    [src |-> <<>>, title |-> <<>>, video_path |-> <<>>, kind |-> "", err |-> "",
     playlist |-> <<>>, ts_links |-> <<>>, tasks |-> {}, handle |-> -1, off |-> 0,
     nchunks |-> 0, total |-> 0, renamed |-> FALSE, missed |-> FALSE, status |-> 0]

Init ==
    /\ fx = [op |-> "none"]
    /\ use_multithreading \in BOOLEAN
    /\ runpc = "download"
    /\ exit_code = 0
    /\ failed_list = <<>>
    /\ pc = [e \in Episodes |-> "queued"]
    /\ loc = [e \in Episodes |-> LocInit]
    /\ net = [e \in Episodes |-> {}]
    /\ \E S \in PreExisting : files = [p \in S |-> 0]
    /\ ino = [e \in Episodes |-> [data |-> <<>>, done |-> FALSE]]
    /\ ts_folder = NoFolder

Exists(p) == p \in DOMAIN files
Drop(f, p) == [q \in DOMAIN f \ {p} |-> f[q]]
Put(f, p, v) == [q \in DOMAIN f \cup {p} |-> IF q = p THEN v ELSE f[q]]

\* st_size of inode i (0: a file that was there before the run).  The bytes
\* of a stream are spread evenly over its chunks.
FileSize(i) ==
    IF i = 0 THEN MinSize
    ELSE IF loc[i].kind = "mp4"
    THEN IF Len(ino[i].data) >= loc[i].nchunks THEN loc[i].total
         ELSE (Len(ino[i].data) * loc[i].total) \div loc[i].nchunks
    ELSE IF ino[i].done THEN loc[i].total ELSE 0

\* f.write at offset off of a file whose content is data (a gap reads as 0)
WriteAt(data, off, e) ==
    [k \in 1..(IF Len(data) > off + 1 THEN Len(data) ELSE off + 1) |->
        IF k = off + 1 THEN e ELSE IF k <= Len(data) THEN data[k] ELSE 0]

Raise(e, msg, l) ==
    /\ pc' = [pc EXCEPT ![e] = "raised"]
    /\ loc' = [loc EXCEPT ![e] = [l EXCEPT !.err = msg]]

Goto(e, where, l) ==
    /\ pc' = [pc EXCEPT ![e] = where]
    /\ loc' = [loc EXCEPT ![e] = l]

Running(e) == pc[e] \notin {"queued", "done"}

\* the loop of run() takes the next URL once the one before is through; the
\* pool hands the URLs out in order to at most PoolWidth workers
Start(e) ==
    /\ runpc = "download"
    /\ pc[e] = "queued"
    /\ \A d \in 1..(e - 1) : pc[d] # "queued"
    /\ IF use_multithreading
       THEN Cardinality({d \in Episodes : Running(d)}) < PoolWidth
       ELSE \A d \in 1..(e - 1) : pc[d] = "done"
    /\ pc' = [pc EXCEPT ![e] = "resolve"]
    /\ UNCHANGED <<fx, use_multithreading, runpc, exit_code, failed_list, loc, net,
                   files, ino, ts_folder>>

\* download_episode up to the title: page POST, video tag, token, API POST,
\* src, cookies, title
PageErrors == {"RequestException", "no video tag", "no data-apireq"}
ApiErrors == {"no src", "no cookie", "no title"}

Resolve(e) ==
    /\ pc[e] = "resolve"
    /\ \/ \E msg \in PageErrors :
            /\ net' = [net EXCEPT ![e] = @ \cup {"page"}]
            /\ Raise(e, msg, loc[e])
       \/ \E msg \in ApiErrors :
            /\ net' = [net EXCEPT ![e] = @ \cup {"page", "api"}]
            /\ Raise(e, msg, loc[e])
       \/ \E src \in MediaSrcs, title \in Titles :
            /\ net' = [net EXCEPT ![e] = @ \cup {"page", "api"}]
            /\ Goto(e, "name", [loc[e] EXCEPT !.src = src, !.title = title])
    /\ UNCHANGED <<fx, use_multithreading, runpc, exit_code, failed_list,
                   files, ino, ts_folder>>

\* the destination, or the error, of every title of the run
TitlePath == [t \in Titles |-> video_path_of(MainSeasons, t)]

\* the slip of leaving out check_file_exists
ProcessVideoNameUnchecked(e) ==
    /\ pc[e] = "name"
    /\ LET r == TitlePath[loc[e].title]
           l == [loc[e] EXCEPT !.title = <<>>]
       IN  IF ~r.ok THEN Raise(e, r.err, l)
           ELSE Goto(e, "dispatch", [l EXCEPT !.video_path = r.path])
    /\ UNCHANGED <<fx, use_multithreading, runpc, exit_code, failed_list, net,
                   files, ino, ts_folder>>

\* process_video_name: the destination of the title, then check_file_exists
ProcessVideoName(e) ==
    /\ pc[e] = "name"
    /\ LET r == TitlePath[loc[e].title]
           l == [loc[e] EXCEPT !.title = <<>>]
       IN  IF ~r.ok THEN Raise(e, r.err, l)
           ELSE IF Exists(r.path)
           THEN Raise(e, "FileExistsError", [l EXCEPT !.video_path = r.path])
           ELSE Goto(e, "dispatch", [l EXCEPT !.video_path = r.path])
    /\ UNCHANGED <<fx, use_multithreading, runpc, exit_code, failed_list, net,
                   files, ino, ts_folder>>

Suffix(e) == video_suffix(<<"https:">> \o loc[e].src)

\* any other suffix
Unsupported(e) ==
    /\ pc[e] = "dispatch"
    /\ Suffix(e) \notin {<<"mp4">>, <<"m3u8">>}
    /\ Raise(e, "ValueError: suffix", [loc[e] EXCEPT !.src = <<>>])
    /\ UNCHANGED <<fx, use_multithreading, runpc, exit_code, failed_list, net,
                   files, ino, ts_folder>>

-----------------------------------------------------------------------------
(* download_mp4 *)

\* what the media GET answers: a status and a Content-Length (0 when the
\* header is absent)
MediaStatuses == {200, 404}
ContentLengths == {0} \cup Sizes

\* the slip of removing the temporary file before the response is checked
Mp4RequestUnlinkFirst(e) ==
    /\ pc[e] = "dispatch"
    /\ Suffix(e) = <<"mp4">>
    /\ net' = [net EXCEPT ![e] = @ \cup {"media"}]
    /\ LET tmp == temp_video_path(loc[e].video_path)
       IN  files' = IF Exists(tmp) THEN Drop(files, tmp) ELSE files
    /\ \E status \in MediaStatuses, length \in ContentLengths, n \in 1..MaxChunks :
          LET l == [loc[e] EXCEPT !.src = <<>>, !.kind = "mp4", !.status = status]
          IN  IF status # 200 THEN Raise(e, "ConnectionError", l)
              ELSE IF length = 0 THEN Raise(e, "ValueError: Content-Length", l)
              ELSE Goto(e, "mp4_open", [l EXCEPT !.nchunks = n, !.total = length])
    /\ UNCHANGED <<fx, use_multithreading, runpc, exit_code, failed_list, ino, ts_folder>>

\* the GET, the two checks of the response, and the removal of a temporary
\* file that is in the way
Mp4Request(e) ==
    /\ pc[e] = "dispatch"
    /\ Suffix(e) = <<"mp4">>
    /\ net' = [net EXCEPT ![e] = @ \cup {"media"}]
    /\ \E status \in MediaStatuses, length \in ContentLengths, n \in 1..MaxChunks :
          LET l == [loc[e] EXCEPT !.src = <<>>, !.kind = "mp4", !.status = status]
              tmp == temp_video_path(loc[e].video_path)
          IN  IF status # 200
              THEN /\ Raise(e, "ConnectionError", l)
                   /\ files' = files
              ELSE IF length = 0
              THEN /\ Raise(e, "ValueError: Content-Length", l)
                   /\ files' = files
              ELSE /\ Goto(e, "mp4_open", [l EXCEPT !.nchunks = n, !.total = length])
                   /\ files' = IF Exists(tmp) THEN Drop(files, tmp) ELSE files
    /\ UNCHANGED <<fx, use_multithreading, runpc, exit_code, failed_list, ino, ts_folder>>

\* temp_video_path.open('wb'): creates the file, or empties the one there
Mp4Open(e) ==
    /\ pc[e] = "mp4_open"
    /\ LET tmp == temp_video_path(loc[e].video_path)
           h == IF Exists(tmp) THEN files[tmp] ELSE e
       IN  /\ files' = Put(files, tmp, h)
           /\ ino' = IF h = 0 THEN ino ELSE [ino EXCEPT ![h].data = <<>>]
           /\ Goto(e, "mp4_write", [loc[e] EXCEPT !.handle = h])
    /\ UNCHANGED <<fx, use_multithreading, runpc, exit_code, failed_list, net, ts_folder>>

\* one chunk of iter_content written, or the stream breaking
Mp4Write(e) ==
    /\ pc[e] = "mp4_write"
    /\ \/ /\ Raise(e, "ChunkedEncodingError", [loc[e] EXCEPT !.handle = -1])
          /\ ino' = ino
       \/ /\ ino' = IF loc[e].handle = 0 THEN ino
                    ELSE [ino EXCEPT ![loc[e].handle].data = WriteAt(@, loc[e].off, e)]
          /\ Goto(e, IF loc[e].off + 1 = loc[e].nchunks THEN "mp4_rename" ELSE "mp4_write",
                  [loc[e] EXCEPT !.off = @ + 1])
    /\ UNCHANGED <<fx, use_multithreading, runpc, exit_code, failed_list, net,
                   files, ts_folder>>

\* the slip of validating without the rename
Mp4RenameSkipped(e) ==
    /\ pc[e] = "mp4_rename"
    /\ Goto(e, "validate", [loc[e] EXCEPT !.handle = -1])
    /\ UNCHANGED <<fx, use_multithreading, runpc, exit_code, failed_list, net,
                   files, ino, ts_folder>>

\* temp_video_path.rename(video_path)
Mp4Rename(e) ==
    /\ pc[e] = "mp4_rename"
    /\ LET tmp == temp_video_path(loc[e].video_path)
       IN  IF Exists(tmp)
           THEN /\ files' = Drop(Put(files, loc[e].video_path, files[tmp]), tmp)
                /\ Goto(e, "validate", [loc[e] EXCEPT !.renamed = TRUE, !.handle = -1])
           ELSE /\ files' = files
                /\ Raise(e, "FileNotFoundError: rename", [loc[e] EXCEPT !.handle = -1])
    /\ UNCHANGED <<fx, use_multithreading, runpc, exit_code, failed_list, net,
                   ino, ts_folder>>

-----------------------------------------------------------------------------
(* download_ts and convert_ts_to_mp4 *)

\* parse_m3u8_from_url, then the scratch directory and the concatenation
\* manifest, one line per key of ts_links, then the segment tasks submitted
TsBegin(e) ==
    /\ pc[e] = "dispatch"
    /\ Suffix(e) = <<"m3u8">>
    /\ net' = [net EXCEPT ![e] = @ \cup {"playlist"}]
    /\ \E resp \in MainResponses :
          LET out == parse_m3u8_from_url(<<"https:">> \o loc[e].src, resp)
              l == [loc[e] EXCEPT !.src = <<>>, !.kind = "m3u8"]
              body == IF resp[1].status = 200 THEN resp[1].body ELSE resp[2].body
          IN  IF ~out.ok
              THEN /\ Raise(e, out.err, l)
                   /\ ts_folder' = ts_folder
              ELSE /\ ts_folder' = [ts_folder EXCEPT
                                       !.exists = TRUE,
                                       !.playlist = [owner |-> e, lines |-> Keys(out.ts_links)]]
                   /\ Goto(e, IF out.ts_links = <<>> THEN "ts_convert" ELSE "ts_fetch",
                           [l EXCEPT !.playlist = body, !.ts_links = out.ts_links,
                                     !.tasks = 1..Len(out.ts_links)])
    /\ UNCHANGED <<fx, use_multithreading, runpc, exit_code, failed_list, files, ino>>

\* download_single_ts of one submitted task, in any order; what it raises
\* (the GET failing, the directory gone) stays in its future, which nothing
\* reads: missed records that some future holds an exception
TsSegment(e) ==
    /\ pc[e] = "ts_fetch"
    /\ \E i \in loc[e].tasks :
          /\ net' = [net EXCEPT ![e] = @ \cup {"segment"}]
          /\ \/ /\ ts_folder' = ts_folder
                /\ Goto(e, IF loc[e].tasks = {i} THEN "ts_convert" ELSE "ts_fetch",
                        [loc[e] EXCEPT !.tasks = @ \ {i}, !.missed = TRUE])
             \/ /\ ts_folder.exists
                /\ ts_folder' = [ts_folder EXCEPT
                                    !.segs = Put(@, loc[e].ts_links[i][1], e)]
                /\ Goto(e, IF loc[e].tasks = {i} THEN "ts_convert" ELSE "ts_fetch",
                        [loc[e] EXCEPT !.tasks = @ \ {i}])
    /\ UNCHANGED <<fx, use_multithreading, runpc, exit_code, failed_list, files, ino>>

\* what ffmpeg's concat reads: the manifest now in the scratch directory and
\* the files it lists
Readable ==
    /\ ts_folder.exists
    /\ ts_folder.playlist.owner # 0
    /\ ts_folder.playlist.lines # <<>>
    /\ \A k \in 1..Len(ts_folder.playlist.lines) :
          ts_folder.playlist.lines[k] \in DOMAIN ts_folder.segs

\* convert_ts_to_mp4: an old .temp.mp4 removed, ffmpeg started
TsConvert(e) ==
    /\ pc[e] = "ts_convert"
    /\ \/ /\ ts_folder' = [ts_folder EXCEPT !.temp = -1]
          /\ ino' = ino
          /\ Raise(e, "Exception: ffmpeg", [loc[e] EXCEPT !.playlist = <<>>, !.ts_links = <<>>])
       \/ /\ Readable
          /\ ts_folder' = [ts_folder EXCEPT !.temp = e]
          /\ ino' = [ino EXCEPT ![e] =
                        [data |-> [k \in 1..Len(ts_folder.playlist.lines) |->
                                      ts_folder.segs[ts_folder.playlist.lines[k]]],
                         done |-> FALSE]]
          /\ Goto(e, "ts_ffmpeg", [loc[e] EXCEPT !.playlist = <<>>, !.ts_links = <<>>])
    /\ UNCHANGED <<fx, use_multithreading, runpc, exit_code, failed_list, net, files>>

\* the slip of removing the scratch directory when ffmpeg failed as well
TsFfmpegExitCleanup(e) ==
    /\ pc[e] = "ts_ffmpeg"
    /\ \/ /\ ino' = ino
          /\ ts_folder' = NoFolder
          /\ Raise(e, "Exception: ffmpeg", loc[e])
       \/ /\ ino' = [ino EXCEPT ![e].done = TRUE]
          /\ ts_folder' = ts_folder
          /\ \E size \in Sizes : Goto(e, "ts_rename", [loc[e] EXCEPT !.total = size])
    /\ UNCHANGED <<fx, use_multithreading, runpc, exit_code, failed_list, net, files>>

\* ffmpeg exits: 0 with the output written, or not
TsFfmpegExit(e) ==
    /\ pc[e] = "ts_ffmpeg"
    /\ \/ /\ ino' = ino
          /\ Raise(e, "Exception: ffmpeg", loc[e])
       \/ /\ ino' = [ino EXCEPT ![e].done = TRUE]
          /\ \E size \in Sizes : Goto(e, "ts_rename", [loc[e] EXCEPT !.total = size])
    /\ UNCHANGED <<fx, use_multithreading, runpc, exit_code, failed_list, net, files,
                   ts_folder>>

\* tmp_video_path.rename(video_path)
TsRename(e) ==
    /\ pc[e] = "ts_rename"
    /\ IF ts_folder.exists /\ ts_folder.temp # -1
       THEN /\ files' = Put(files, loc[e].video_path, ts_folder.temp)
            /\ ts_folder' = [ts_folder EXCEPT !.temp = -1]
            /\ Goto(e, "ts_rmtree", [loc[e] EXCEPT !.renamed = TRUE])
       ELSE /\ files' = files
            /\ ts_folder' = ts_folder
            /\ Raise(e, "FileNotFoundError: rename", loc[e])
    /\ UNCHANGED <<fx, use_multithreading, runpc, exit_code, failed_list, net, ino>>

\* shutil.rmtree(ts_folder)
TsRmtree(e) ==
    /\ pc[e] = "ts_rmtree"
    /\ IF ts_folder.exists
       THEN /\ ts_folder' = NoFolder
            /\ Goto(e, "validate", loc[e])
       ELSE /\ ts_folder' = ts_folder
            /\ Raise(e, "FileNotFoundError: rmtree", loc[e])
    /\ UNCHANGED <<fx, use_multithreading, runpc, exit_code, failed_list, net, files, ino>>

-----------------------------------------------------------------------------
(* validate_download, the per-episode except clause, the report *)

\* video_path.stat().st_size < 1024 * 1024
Validate(e) ==
    /\ pc[e] = "validate"
    /\ IF ~Exists(loc[e].video_path)
       THEN Raise(e, "FileNotFoundError: stat", loc[e])
       ELSE IF FileSize(files[loc[e].video_path]) < MinSize
       THEN Goto(e, "unlink", loc[e])
       ELSE Goto(e, "done", loc[e])
    /\ UNCHANGED <<fx, use_multithreading, runpc, exit_code, failed_list, net,
                   files, ino, ts_folder>>

\* video_path.unlink(), then the raise
ValidateUnlink(e) ==
    /\ pc[e] = "unlink"
    /\ IF Exists(loc[e].video_path)
       THEN /\ files' = Drop(files, loc[e].video_path)
            /\ Raise(e, "Exception: too small", loc[e])
       ELSE /\ files' = files
            /\ Raise(e, "FileNotFoundError: unlink", loc[e])
    /\ UNCHANGED <<fx, use_multithreading, runpc, exit_code, failed_list, net,
                   ino, ts_folder>>

\* the slip of an except clause that ends the run
CatchAbort(e) ==
    /\ pc[e] = "raised"
    /\ runpc' = "exit"
    /\ exit_code' = 1
    /\ pc' = [pc EXCEPT ![e] = "done"]
    /\ UNCHANGED <<fx, use_multithreading, failed_list, loc, net, files, ino, ts_folder>>

\* the slip of an append that is lost when another worker is in its except
\* clause at the same time
CatchLossy(e) ==
    /\ pc[e] = "raised"
    /\ failed_list' = IF \E d \in Episodes \ {e} : pc[d] = "raised"
                      THEN failed_list
                      ELSE Append(failed_list, <<e, loc[e].err>>)
    /\ pc' = [pc EXCEPT ![e] = "done"]
    /\ UNCHANGED <<fx, use_multithreading, runpc, exit_code, loc, net, files, ino,
                   ts_folder>>

\* except Exception as e: self.failed_list.append(f"{url}: {e}")
Catch(e) ==
    /\ pc[e] = "raised"
    /\ failed_list' = Append(failed_list, <<e, loc[e].err>>)
    /\ pc' = [pc EXCEPT ![e] = "done"]
    /\ UNCHANGED <<fx, use_multithreading, runpc, exit_code, loc, net, files, ino,
                   ts_folder>>

\* the loop or the pool is through: the failure list and the counts
Report ==
    /\ runpc = "download"
    /\ \A e \in Episodes : pc[e] = "done"
    /\ runpc' = "report"
    /\ UNCHANGED <<fx, use_multithreading, exit_code, failed_list, pc, loc, net,
                   files, ino, ts_folder>>

\* run() returns to __main__, which ends with status 0
Exit ==
    /\ runpc = "report"
    /\ runpc' = "exit"
    /\ exit_code' = 0
    /\ UNCHANGED <<fx, use_multithreading, failed_list, pc, loc, net, files, ino,
                   ts_folder>>

Next ==
    \/ \E e \in Episodes :
          \/ Start(e)
          \/ Resolve(e)
          \/ ProcessVideoName(e)
          \/ Unsupported(e)
          \/ Mp4Request(e)
          \/ Mp4Open(e)
          \/ Mp4Write(e)
          \/ Mp4Rename(e)
          \/ TsBegin(e)
          \/ TsSegment(e)
          \/ TsConvert(e)
          \/ TsFfmpegExit(e)
          \/ TsRename(e)
          \/ TsRmtree(e)
          \/ Validate(e)
          \/ ValidateUnlink(e)
          \/ Catch(e)
    \/ Report
    \/ Exit

Spec == Init /\ [][Next]_vars

-----------------------------------------------------------------------------
(* Properties of the run *)

Range(f) == {f[k] : k \in DOMAIN f}

\* a hidden temporary name
IsTemp(p) == Head(p[Len(p)]) = "."

Finals == {p \in DOMAIN files : ~IsTemp(p)}

\* inode i holds a whole download: every chunk of one progressive stream, in
\* order, or the output of a remux that ended with status 0
Complete(i) ==
    \/ i = 0
    \/ /\ loc[i].kind = "mp4"
       /\ \E x \in Episodes :
             /\ loc[x].kind = "mp4"
             /\ ino[i].data = [k \in 1..loc[x].nchunks |-> x]
    \/ /\ loc[i].kind = "m3u8"
       /\ ino[i].done

\* e has taken its step from position "from"
Left(e, from) == pc[e] = from /\ pc'[e] # from

\* C1 (as stated): an episode that fails on an existing destination has made
\* no network call.
C1_Original ==
    \A e \in Episodes : loc[e].err = "FileExistsError" => net[e] = {}

\* C1 (amended): when the destination computed from the title exists as a
\* file, download_episode raises FileExistsError after the page fetch and the
\* API POST and before any media, playlist or segment fetch, and the step
\* changes no file.
C1_Amended ==
    /\ [](\A e \in Episodes :
            loc[e].err = "FileExistsError" =>
                /\ net[e] = {"page", "api"}
                /\ loc[e].kind = ""
                /\ ~loc[e].renamed)
    /\ [][\A e \in Episodes :
            (/\ Left(e, "name")
             /\ TitlePath[loc[e].title].ok
             /\ Exists(TitlePath[loc[e].title].path))
            => /\ pc'[e] = "raised"
               /\ loc'[e].err = "FileExistsError"
               /\ <<files, ino, ts_folder, net>>' = <<files, ino, ts_folder, net>>]_vars

\* the destination was on disk before the run; the episode is through, failed,
\* and the file is the one that was there
C1_Witness ==
    \E e \in Episodes :
        /\ pc[e] = "done"
        /\ loc[e].err = "FileExistsError"
        /\ net[e] = {"page", "api"}
        /\ Exists(loc[e].video_path)
        /\ files[loc[e].video_path] = 0

\* C2: a file under a final destination name is never replaced, and it is
\* removed only by the size validation of the download that put it there.
C2_NeverOverwritten ==
    [][\A p \in Finals :
          \/ p \in DOMAIN files' /\ files'[p] = files[p]
          \/ /\ p \notin DOMAIN files'
             /\ \E e \in Episodes :
                   /\ Left(e, "unlink")
                   /\ loc[e].video_path = p
                   /\ files[p] = e]_vars

\* C3: a download that ends with a file below 1 MiB has the file deleted, the
\* destination gone and the episode recorded as too small; a file of 1 MiB
\* or more is left alone by the validation.
C3_TooSmallDeleted ==
    /\ [][\A e \in Episodes :
            (Left(e, "validate") /\ Exists(loc[e].video_path)) =>
                IF FileSize(files[loc[e].video_path]) < MinSize
                THEN pc'[e] = "unlink"
                ELSE pc'[e] = "done" /\ files' = files]_vars
    /\ [][\A e \in Episodes :
            Left(e, "unlink") =>
                /\ FileSize(files[loc[e].video_path]) < MinSize
                /\ loc[e].video_path \notin DOMAIN files'
                /\ loc'[e].err = "Exception: too small"]_vars
    /\ [](\A e \in Episodes :
            (pc[e] = "done" /\ loc[e].err = "Exception: too small") =>
                <<e, loc[e].err>> \in Range(failed_list))

Fetching(e) == pc[e] \in {"ts_fetch", "ts_convert"} /\ ts_folder.playlist.owner = e

\* C5 (as stated): the lines of the concatenation manifest are the segments
\* the playlist declares: same segments, same order, same count.
C5_Original ==
    \A e \in Episodes : Fetching(e) => ts_folder.playlist.lines = loc[e].playlist

\* C5 (amended): the lines of the concatenation manifest are the distinct
\* segment names of the playlist in the order of their first declaration (a
\* name declared twice gives one line), whatever the order in which the
\* segment downloads complete.
C5_Amended ==
    \A e \in Episodes :
        Fetching(e) => /\ ts_folder.playlist.lines = Distinct(loc[e].playlist)
                       /\ ts_folder.playlist.lines = Keys(loc[e].ts_links)
                       /\ loc[e].tasks \subseteq 1..Len(ts_folder.playlist.lines)

\* the second segment is complete before the first
C5_Witness ==
    \E e \in Episodes :
        /\ Fetching(e)
        /\ loc[e].playlist = <<"0.ts", "1.ts">>
        /\ loc[e].tasks = {1}
        /\ "1.ts" \in DOMAIN ts_folder.segs
        /\ ts_folder.playlist.lines = <<"0.ts", "1.ts">>

InScratch(e) == pc[e] \in {"ts_fetch", "ts_convert", "ts_ffmpeg", "ts_rename"}

\* C6: on the pool, an episode that is downloading or remuxing has the
\* scratch directory to itself: the directory is there, the manifest in it is
\* its own, and a final file is built from its own episode's segments.
C6_NoScratchCollision ==
    use_multithreading =>
        /\ \A e \in Episodes :
              InScratch(e) => ts_folder.exists /\ ts_folder.playlist.owner = e
        /\ \A p \in Finals :
              (files[p] # 0 /\ loc[files[p]].kind = "m3u8") =>
                  \A k \in 1..Len(ino[files[p]].data) : ino[files[p]].data[k] = files[p]

\* C7: a file under a final destination name holds a complete download.
C7_FinalNamesComplete ==
    \A p \in Finals : Complete(files[p])

\* C8 (as stated): the rename to the final name comes after a successful
\* validation, and no file that fails validation is under a final name.
C8_Original ==
    /\ \A e \in Episodes : loc[e].renamed => (pc[e] = "done" /\ loc[e].err = "")
    /\ \A p \in Finals : FileSize(files[p]) >= MinSize

\* C8 (amended): the temporary file is renamed to the final name first and
\* the size validation is made afterwards, on the final name; a download
\* that fails it is under the final name until validate_download unlinks it.
C8_Amended ==
    /\ [](\A e \in Episodes :
            (\/ pc[e] \in {"validate", "unlink"}
             \/ loc[e].err \in {"Exception: too small", "FileNotFoundError: stat",
                               "FileNotFoundError: unlink"})
            => loc[e].renamed)
    /\ [][\A e \in Episodes :
            (~loc[e].renamed /\ loc'[e].renamed) =>
                /\ pc[e] \in {"mp4_rename", "ts_rename"}
                /\ loc[e].video_path \in DOMAIN files'
                /\ pc'[e] \in {"validate", "ts_rmtree"}]_vars

\* a file below 1 MiB is under its final name, renamed, about to be unlinked
C8_Witness ==
    \E e \in Episodes :
        /\ pc[e] = "unlink"
        /\ loc[e].renamed
        /\ Exists(loc[e].video_path)
        /\ files[loc[e].video_path] = e
        /\ FileSize(e) < MinSize

\* the records of episode e in the failure list
RecordsOf(e) == {k \in 1..Len(failed_list) : failed_list[k][1] = e}

Failed == {e \in Episodes : loc[e].err # ""}

\* C13: on the pool, when the run is at its report the failure list holds
\* exactly one record, with its message, for every episode that raised and
\* none for an episode that did not; the counts of the report add up:
\* attempted = succeeded + failed.
C13_OneRecordPerFailure ==
    (use_multithreading /\ runpc \in {"report", "exit"}) =>
        /\ \A e \in Failed :
              /\ Cardinality(RecordsOf(e)) = 1
              /\ \A k \in RecordsOf(e) : failed_list[k] = <<e, loc[e].err>>
        /\ \A e \in Episodes \ Failed : RecordsOf(e) = {}
        /\ Len(failed_list) = Cardinality(Failed)
        /\ NumEpisodes = Cardinality(Episodes \ Failed) + Len(failed_list)

\* two workers failed, the second episode's record was appended first
C13_Witness ==
    /\ use_multithreading
    /\ runpc = "report"
    /\ Len(failed_list) = 2
    /\ failed_list[1][1] = 2
    /\ failed_list[2][1] = 1

\* every segment of e's manifest is a file of the scratch directory
SegmentsPresent(e) ==
    /\ ts_folder.exists
    /\ \A k \in 1..Len(loc[e].ts_links) : loc[e].ts_links[k][1] \in DOMAIN ts_folder.segs

\* C14: the remux tool is started only when every segment of the manifest
\* is a file of the scratch directory and no segment fetch has failed; an
\* episode with a failed segment fetch produces no final file.
C14_RemuxOnCompleteSet ==
    /\ [][\A e \in Episodes :
            Left(e, "ts_convert") => (~loc[e].missed /\ SegmentsPresent(e))]_vars
    /\ [](\A e \in Episodes : loc[e].missed => ~loc[e].renamed)

\* e's step is the remux of e ending in failure
RemuxFails(e) ==
    /\ pc[e] \in {"ts_convert", "ts_ffmpeg"}
    /\ pc'[e] = "raised"

\* C15: when the remux tool exits non-zero, download_ts raises the remux
\* error, the step creates no file (in sequential mode the destination does
\* not exist when the failure is recorded), the episode has renamed nothing
\* and is recorded in the failure list; the scratch directory with its
\* segment files and its manifest is removed only by the rmtree of an
\* episode whose remux exited with 0 and that has renamed the output.
C15_RemuxFailure ==
    /\ [][\A e \in Episodes :
            RemuxFails(e) => /\ loc'[e].err = "Exception: ffmpeg"
                             /\ files' = files
                             /\ ts_folder'.exists = ts_folder.exists
                             /\ ts_folder'.segs = ts_folder.segs
                             /\ ts_folder'.playlist = ts_folder.playlist]_vars
    /\ [](\A e \in Episodes :
            loc[e].err = "Exception: ffmpeg" =>
                /\ ~loc[e].renamed
                /\ (pc[e] = "raised" /\ ~use_multithreading) => ~Exists(loc[e].video_path)
                /\ pc[e] = "done" => <<e, "Exception: ffmpeg">> \in Range(failed_list))
    /\ [][(\/ ts_folder.exists /\ ~ts_folder'.exists
           \/ DOMAIN ts_folder.segs \ DOMAIN ts_folder'.segs # {})
          => \E e \in Episodes :
                /\ Left(e, "ts_rmtree")
                /\ loc[e].renamed
                /\ ino[e].done]_vars

\* the remux of the only segmented episode failed: the episode is recorded,
\* its segment and its manifest are still in the scratch directory, the
\* destination does not exist
C15_Witness ==
    \E e \in Episodes :
        /\ pc[e] = "done"
        /\ loc[e].err = "Exception: ffmpeg"
        /\ <<e, "Exception: ffmpeg">> \in Range(failed_list)
        /\ ts_folder.exists
        /\ ts_folder.playlist = [owner |-> e, lines |-> <<"0.ts">>]
        /\ DOMAIN ts_folder.segs = {"0.ts"}
        /\ ~Exists(loc[e].video_path)

\* C16: download_mp4 raises when the status of the response is not 200 or
\* its Content-Length is zero or absent, and goes on otherwise; the failing
\* call creates and deletes no file: the temporary file, there or not, and
\* the destination are as they were.
C16_TransferErrorBeforeFiles ==
    [][\A e \in Episodes :
          (Left(e, "dispatch") /\ loc'[e].kind = "mp4") =>
              IF loc'[e].status # 200 \/ loc'[e].total = 0
              THEN /\ pc'[e] = "raised"
                   /\ loc'[e].err \in {"ConnectionError", "ValueError: Content-Length"}
                   /\ files' = files
                   /\ ino' = ino
              ELSE pc'[e] = "mp4_open"]_vars

\* the response had no Content-Length; the temporary file an earlier download
\* of the same title left behind is still there, the destination is not
C16_Witness ==
    \E e \in Episodes :
        /\ loc[e].err = "ValueError: Content-Length"
        /\ loc[e].status = 200
        /\ Exists(temp_video_path(loc[e].video_path))
        /\ ~Exists(loc[e].video_path)

\* C19: in sequential mode and on the pool, whatever the remux of an
\* episode concatenates was written by the segment downloads of that same
\* episode: no file left in the scratch directory by an earlier episode
\* gets into a later episode's output.
C19_OwnSegmentsOnly ==
    \A e \in Episodes :
        loc[e].kind = "m3u8" =>
            \A k \in 1..Len(ino[e].data) : ino[e].data[k] = e

====
